---- MODULE Spec2Model ----
(***************************************************************************)
(* Model of the ITS compiler command line front end                        *)
(* (src/its_compiler_cli/main.py): main(), download_template(),            *)
(* load_variables(), compile_template(), _is_safe_output_path() and the    *)
(* watch handler TemplateChangeHandler.on_modified().                      *)
(*                                                                         *)
(* Two threads are modelled: the main thread (variable pc) and the         *)
(* watchdog observer thread that dispatches file events to the handler     *)
(* (variable obsPc).  The state starts where click has parsed the command  *)
(* line and calls main().                                                  *)
(***************************************************************************)
EXTENDS Integers, Sequences, FiniteSets, TLC

\* ------------------------------------------------------------------ bounds

\* Number of file-system events the notifier delivers in one watch session.
MaxEvents == 3

\* ------------------------------------------------------------ text helpers

StartsWith(s, p) == Len(p) <= Len(s) /\ SubSeq(s, 1, Len(p)) = p

Contains(s, p) ==
    \E i \in 1..(Len(s) - Len(p) + 1) : SubSeq(s, i, i + Len(p) - 1) = p

LowerLetters ==
    << "a", "b", "c", "d", "e", "f", "g", "h", "i", "j", "k", "l", "m",
       "n", "o", "p", "q", "r", "s", "t", "u", "v", "w", "x", "y", "z" >>

UpperLetters ==
    << "A", "B", "C", "D", "E", "F", "G", "H", "I", "J", "K", "L", "M",
       "N", "O", "P", "Q", "R", "S", "T", "U", "V", "W", "X", "Y", "Z" >>

\* str.upper() on one character.
UpperChar(c) ==
    IF \E i \in 1..Len(LowerLetters) : LowerLetters[i] = c
    THEN UpperLetters[CHOOSE i \in 1..Len(LowerLetters) : LowerLetters[i] = c]
    ELSE c

Upper(s) == [i \in 1..Len(s) |-> UpperChar(s[i])]

\* --------------------------------------------------------- exception types

\* Direct base class of each exception type that main.py raises or catches.
Parent ==
    [ ITSSecurityError    |-> "ITSError",
      ITSValidationError  |-> "ITSError",
      ITSCompilationError |-> "ITSError",
      ITSError            |-> "Exception",
      ClickException      |-> "Exception",
      PermissionError     |-> "OSError",
      OSError             |-> "Exception",
      Exception           |-> "BaseException",
      SystemExit          |-> "BaseException",
      KeyboardInterrupt   |-> "BaseException",
      BaseException       |-> "BaseException" ]

RECURSIVE IsInstance(_, _)
IsInstance(e, c) ==
    IF e = c THEN TRUE
    ELSE IF e = "BaseException" THEN FALSE
    ELSE IsInstance(Parent[e], c)

\* ------------------------------------------------------------ CLI inputs

\* A template argument as urllib.parse.urlparse splits it: the text typed
\* before "://" (empty when the argument has no scheme), the network
\* location and the rest.  NoTemplate is an absent or empty argument.
NoTemplate == [scheme |-> "", netloc |-> "", path |-> ""]

Templates ==
    { NoTemplate,
      [scheme |-> "",      netloc |-> "",  path |-> "t.json"],
      [scheme |-> "https", netloc |-> "h", path |-> "/t.json"],
      [scheme |-> "http",  netloc |-> "h", path |-> "/t.json"],
      [scheme |-> "ftp",   netloc |-> "h", path |-> "/t.json"] }

\* Output paths in their resolved absolute form, as character sequences;
\* << >> is "no --output".
NoOutput == << >>

OutputPaths ==
    { NoOutput,
      <<"/", "o", "/", "x">>,
      <<"/", "e", "t", "c", "/", "x">>,
      <<"/", "o", "/", "x", "?">> }

VarStates == {"ok", "missing", "bad_json", "not_dict", "too_large", "denied", "is_dir"}

NetOutcomes == {"ok", "transport_error", "non_200", "not_json"}

WriteOutcomes == {"ok", "PermissionError", "OSError"}

UnlinkOutcomes == {"ok", "OSError"}

EngineErrors ==
    {"ITSSecurityError", "ITSValidationError", "ITSCompilationError", "ITSError", "Exception"}

\* The ITSConfig constructor of line 417 returns or raises.
ConfigOutcomes == {"ok", "ITSError", "Exception"}

\* What the engine entry point does in one run: validate_file returns a
\* result that is valid or not, compile_file returns a result; either raises.
EngineOutcomes(validate_only) ==
    (IF validate_only THEN {"ok", "invalid"} ELSE {"ok"}) \cup EngineErrors

\* ------------------------------------------------- security configuration

\* The tri-state --interactive-allowlist / --no-interactive-allowlist
\* option: None when neither is given.
InteractiveChoices == {"None", "True", "False"}

\* Baselines SecurityConfig.from_environment() can return: limits are
\* positive and "https" is an allowed protocol; one baseline has limits
\* above the strict presets, one below.
EnvDefaults ==
    { [ network |-> [ allow_http |-> ah, allowed_protocols |-> ap,
                      max_response_size |-> lim.response, request_timeout |-> 30 ],
        allowlist |-> [ interactive_mode |-> im ],
        processing |-> [ max_template_size |-> lim.template,
                         max_content_elements |-> lim.elements,
                         max_nesting_depth |-> lim.depth ] ] :
      ah \in BOOLEAN,
      ap \in { {"https"}, {"https", "http"}, {"https", "data"} },
      im \in BOOLEAN,
      lim \in { [ response |-> 10 * 1024 * 1024, template |-> 1024 * 1024,
                  elements |-> 1000, depth |-> 10 ],
                [ response |-> 1024, template |-> 1024, elements |-> 10, depth |-> 2 ] } }

\* The baseline of the invocations of Spec.
EnvBase ==
    [ network |-> [ allow_http |-> FALSE, allowed_protocols |-> {"https"},
                    max_response_size |-> 10 * 1024 * 1024, request_timeout |-> 30 ],
      allowlist |-> [ interactive_mode |-> TRUE ],
      processing |-> [ max_template_size |-> 1024 * 1024,
                       max_content_elements |-> 1000,
                       max_nesting_depth |-> 10 ] ]

\* --allow-http assigning the protocol set instead of adding to it.
AllowHttpOverride_Assign(config, allow_http) ==
    IF allow_http
    THEN [config EXCEPT !.network.allowed_protocols = {"http"},
                        !.network.allow_http = TRUE]
    ELSE config

\* Lines 280-283: the --allow-http override.
AllowHttpOverride(config, allow_http) ==
    IF allow_http
    THEN [config EXCEPT !.network.allowed_protocols = @ \cup {"http"},
                        !.network.allow_http = TRUE]
    ELSE config

\* Lines 285-286: the interactive allowlist override.
InteractiveOverride(config, interactive_allowlist) ==
    IF interactive_allowlist # "None"
    THEN [config EXCEPT !.allowlist.interactive_mode = (interactive_allowlist = "True")]
    ELSE config

Min(a, b) == IF a <= b THEN a ELSE b

\* Strict mode only ever lowering a limit, never raising it to the preset.
StrictOverride_Tighten(config, strict_mode) ==
    IF strict_mode
    THEN [config EXCEPT !.processing.max_template_size = Min(@, 512 * 1024),
                        !.network.max_response_size = Min(@, 5 * 1024 * 1024),
                        !.processing.max_content_elements = Min(@, 500),
                        !.processing.max_nesting_depth = Min(@, 8)]
    ELSE config

\* Lines 288-292: the strict presets.
StrictOverride(config, strict_mode) ==
    IF strict_mode
    THEN [config EXCEPT !.processing.max_template_size = 512 * 1024,
                        !.network.max_response_size = 5 * 1024 * 1024,
                        !.processing.max_content_elements = 500,
                        !.processing.max_nesting_depth = 8]
    ELSE config

\* create_security_config on the baseline env.
create_security_config(env, allow_http, interactive_allowlist, strict_mode) ==
    StrictOverride(
        InteractiveOverride(AllowHttpOverride(env, allow_http), interactive_allowlist),
        strict_mode)

\* ---------------------------------------------------------- input resolver

\* A classification that looks at the scheme alone.
is_url_SchemeOnly(t) == t.scheme # ""

\* is_url: urlparse finds both a scheme and a network location.
is_url(t) == t.scheme # "" /\ t.netloc # ""

\* The scheme urlparse reports: the typed scheme in lower case.
urlparse_scheme(t) ==
    CASE t.scheme = "HTTPS" -> "https"
      [] t.scheme = "HTTP" -> "http"
      [] OTHER -> t.scheme

\* download_template without the test of network.allow_http.
download_template_HttpAlways(t, allow_http, net) ==
    IF ~(t.scheme \in {"https", "http"}) THEN
        [result |-> "SystemExit", temp |-> FALSE, network |-> FALSE]
    ELSE IF net # "ok" THEN
        [result |-> "SystemExit", temp |-> TRUE, network |-> TRUE]
    ELSE
        [result |-> "temp_path", temp |-> TRUE, network |-> TRUE]

\* download_template: the outcome, whether the temporary file was created
\* and whether a network request was issued.
download_template(t, allow_http, net) ==
    IF ~(t.scheme \in {"https", "http"}) THEN
        [result |-> "SystemExit", temp |-> FALSE, network |-> FALSE]
    ELSE IF ~allow_http /\ t.scheme = "http" THEN
        [result |-> "SystemExit", temp |-> FALSE, network |-> FALSE]
    ELSE IF net # "ok" THEN
        [result |-> "SystemExit", temp |-> TRUE, network |-> TRUE]
    ELSE
        [result |-> "temp_path", temp |-> TRUE, network |-> TRUE]

\* ------------------------------------------------------------- variables

\* load_variables: "ok", or the exception type that leaves the function.
load_variables(vs) ==
    CASE vs = "too_large" -> "SystemExit"
      [] vs = "not_dict"  -> "SystemExit"
      [] vs = "missing"   -> "ClickException"
      [] vs = "bad_json"  -> "ClickException"
      [] vs = "denied"    -> "ClickException"
      [] vs = "is_dir"    -> "OSError"
      [] OTHER            -> "ok"

\* ------------------------------------------------------- output path guard

dangerous_patterns ==
    { <<".", ".">>, <<"%">>, <<"<">>, <<">">>, <<"|">>, <<"\"">>, <<"?">>, <<"*">> }

system_dirs_windows ==
    { <<"C", ":", "\\", "W", "i", "n", "d", "o", "w", "s">>,
      <<"C", ":", "\\", "S", "y", "s", "t", "e", "m", "3", "2">>,
      <<"C", ":", "\\", "P", "r", "o", "g", "r", "a", "m", " ", "F", "i", "l", "e", "s">>,
      <<"C", ":", "\\", "P", "r", "o", "g", "r", "a", "m", " ", "F", "i", "l", "e", "s", " ", "(", "x", "8", "6", ")">> }

system_dirs_posix ==
    { <<"/", "e", "t", "c">>, <<"/", "b", "i", "n">>, <<"/", "s", "b", "i", "n">>,
      <<"/", "u", "s", "r", "/", "b", "i", "n">>,
      <<"/", "u", "s", "r", "/", "s", "b", "i", "n">>,
      <<"/", "p", "r", "o", "c">>, <<"/", "s", "y", "s">>, <<"/", "d", "e", "v">>,
      <<"/", "b", "o", "o", "t">> }

\* The Windows comparison made without upper-casing either side.
_is_safe_output_path_CaseSensitive(path_str, system) ==
    IF \E pattern \in dangerous_patterns : Contains(path_str, pattern) THEN FALSE
    ELSE IF system = "Windows" THEN
        ~ \E sys_dir \in system_dirs_windows : StartsWith(path_str, sys_dir)
    ELSE
        ~ \E sys_dir \in system_dirs_posix : StartsWith(path_str, sys_dir)

\* Lines 586-608: the checks made on the resolved path.
_is_safe_output_path(path_str, system) ==
    IF \E pattern \in dangerous_patterns : Contains(path_str, pattern) THEN FALSE
    ELSE IF system = "Windows" THEN
        ~ \E sys_dir \in system_dirs_windows : StartsWith(Upper(path_str), Upper(sys_dir))
    ELSE
        ~ \E sys_dir \in system_dirs_posix : StartsWith(path_str, sys_dir)

\* ----------------------------------------------------------- orchestrator

\* The generic engine error's clause placed first.
ExceptOrder_GenericFirst ==
    << "ITSError", "ITSSecurityError", "ITSValidationError", "ITSCompilationError", "Exception" >>

\* The except clauses of compile_template, in source order.
ExceptOrder ==
    << "ITSSecurityError", "ITSValidationError", "ITSCompilationError", "ITSError", "Exception" >>

\* The except clause that handles exception e: the first one e is an
\* instance of; "none" when e passes every clause and propagates.
FirstMatch(e) ==
    IF \E i \in 1..Len(ExceptOrder) : IsInstance(e, ExceptOrder[i])
    THEN ExceptOrder[CHOOSE i \in 1..Len(ExceptOrder) :
                        /\ IsInstance(e, ExceptOrder[i])
                        /\ \A j \in 1..(i - 1) : ~IsInstance(e, ExceptOrder[j])]
    ELSE "none"

\* The outcome of one compile_template call.
\*   result   "True" / "False": the value returned; "SystemExit": sys.exit(1)
\*            was called and the exception leaves the function; another
\*            exception type: that exception leaves the function
\*   category what was reported
\*   engine   the engine entry point called, "none" when none was
\*   guard    whether _is_safe_output_path ran
\*   wrote    whether the output file was written
\*   report   "none", "written" or "warning" for the security report
Outcome(res, cat, eng, g, w, rep) ==
    [result |-> res, category |-> cat, engine |-> eng, guard |-> g, wrote |-> w, report |-> rep]

\* "if not watch_mode: sys.exit(1)" followed by "return False".
Failed(watch_mode, cat, eng, g) ==
    Outcome(IF watch_mode THEN "False" ELSE "SystemExit", cat, eng, g, FALSE, "none")

\* The try block's except clauses applied to exception e raised inside it.
Handle(watch_mode, e, eng, g) ==
    IF FirstMatch(e) = "none"
    THEN Outcome(e, "propagated", eng, g, FALSE, "none")
    ELSE Failed(watch_mode, FirstMatch(e), eng, g)

\* A report failure handled like an exception of the try block.
ReportStep_Fails(req, env, out) ==
    IF ~req.security_report \/ env.report = "absent" THEN out
    ELSE IF env.report = "ok" THEN [out EXCEPT !.report = "written"]
    ELSE [out EXCEPT !.result = "False", !.category = "Exception", !.report = "warning"]

\* Lines 520-530: the optional security report, after the output step; its
\* failure is printed as a warning and the run goes on to "return True".
\* Nothing is attempted when the compiler has no generate_security_report.
ReportStep(req, env, out) ==
    IF ~req.security_report \/ env.report = "absent" THEN out
    ELSE IF env.report = "ok" THEN [out EXCEPT !.report = "written"]
    ELSE [out EXCEPT !.report = "warning"]

\* An I/O error other than PermissionError passed over in silence.
WriteStep_Swallowed(env) ==
    IF env.mkdir = "PermissionError" THEN "PermissionError"
    ELSE IF env.write = "PermissionError" THEN "PermissionError"
    ELSE "ok"

\* Lines 504-507: parent.mkdir, then open and write; "ok" or the exception
\* the first failing call raises.
WriteStep(env) ==
    IF env.mkdir # "ok" THEN env.mkdir ELSE env.write

\* A valid template's result written to the requested output path.
ValidateBranch_Writes(req, env, watch_mode) ==
    IF env.engine \in EngineErrors THEN
        Handle(watch_mode, env.engine, "validate_file", FALSE)
    ELSE IF env.engine = "ok" THEN
        Outcome("True", "success", "validate_file", FALSE, req.output # NoOutput, "none")
    ELSE
        Failed(watch_mode, "validation_failed", "validate_file", FALSE)

\* Lines 436-460: validate_file raises, or its result is valid ("return
\* True" at line 451) or not.
ValidateBranch(req, env, watch_mode) ==
    IF env.engine \in EngineErrors THEN
        Handle(watch_mode, env.engine, "validate_file", FALSE)
    ELSE IF env.engine = "ok" THEN
        Outcome("True", "success", "validate_file", FALSE, FALSE, "none")
    ELSE
        Failed(watch_mode, "validation_failed", "validate_file", FALSE)

\* compile_template writing the output without consulting the guard.
compile_template_Unguarded(req, env, watch_mode, system) ==
    LET lv == IF req.variables THEN load_variables(env.vars) ELSE "ok" IN
    IF lv = "SystemExit" THEN
        Outcome("SystemExit", "variables", "none", FALSE, FALSE, "none")
    ELSE IF lv # "ok" THEN
        Failed(watch_mode, "variables", "none", FALSE)
    ELSE IF env.config # "ok" THEN
        \* line 417, before the try block: nothing catches it here
        Outcome(env.config, "unhandled", "none", FALSE, FALSE, "none")
    ELSE IF req.validate_only THEN
        ValidateBranch(req, env, watch_mode)
    ELSE
        IF env.engine \in EngineErrors THEN
            Handle(watch_mode, env.engine, "compile_file", FALSE)
        ELSE IF req.output = NoOutput THEN
            ReportStep(req, env, Outcome("True", "success", "compile_file", FALSE, FALSE, "none"))
        ELSE IF WriteStep(env) = "PermissionError" THEN
            Failed(watch_mode, "permission", "compile_file", FALSE)
        ELSE IF WriteStep(env) # "ok" THEN
            Handle(watch_mode, WriteStep(env), "compile_file", FALSE)
        ELSE
            ReportStep(req, env, Outcome("True", "success", "compile_file", FALSE, TRUE, "none"))

\* Lines 386-574: one run of the orchestrator.
compile_template(req, env, watch_mode, system) ==
    LET lv == IF req.variables THEN load_variables(env.vars) ELSE "ok" IN
    IF lv = "SystemExit" THEN
        Outcome("SystemExit", "variables", "none", FALSE, FALSE, "none")
    ELSE IF lv # "ok" THEN
        Failed(watch_mode, "variables", "none", FALSE)
    ELSE IF env.config # "ok" THEN
        \* line 417, before the try block: nothing catches it here
        Outcome(env.config, "unhandled", "none", FALSE, FALSE, "none")
    ELSE IF req.validate_only THEN
        ValidateBranch(req, env, watch_mode)
    ELSE
        IF env.engine \in EngineErrors THEN
            Handle(watch_mode, env.engine, "compile_file", FALSE)
        ELSE IF req.output = NoOutput THEN
            ReportStep(req, env, Outcome("True", "success", "compile_file", FALSE, FALSE, "none"))
        ELSE IF ~_is_safe_output_path(req.output, system) THEN
            Failed(watch_mode, "unsafe_output", "compile_file", TRUE)
        ELSE IF WriteStep(env) = "PermissionError" THEN
            Failed(watch_mode, "permission", "compile_file", TRUE)
        ELSE IF WriteStep(env) # "ok" THEN
            Handle(watch_mode, WriteStep(env), "compile_file", TRUE)
        ELSE
            ReportStep(req, env, Outcome("True", "success", "compile_file", TRUE, TRUE, "none"))

\* The environment of one run of request req: the variables file, the
\* engine, the output file system and the report step as the run finds
\* them.  A part the request never consults is not enumerated.
Envs(req) ==
    [ vars   : IF req.variables THEN VarStates ELSE {"ok"},
      config : ConfigOutcomes,
      engine : EngineOutcomes(req.validate_only),
      mkdir  : IF req.output # NoOutput THEN WriteOutcomes ELSE {"ok"},
      write  : IF req.output # NoOutput THEN WriteOutcomes ELSE {"ok"},
      report : IF req.security_report THEN {"ok", "fail", "absent"} ELSE {"ok"} ]

\* Every outcome a run of request req can have, over its environments.
Outcomes(req, watch_mode, system) ==
    { compile_template(req, env, watch_mode, system) : env \in Envs(req) }

\* ------------------------------------------------------------------ state

VARIABLES
    args,           \* the parsed command line, fixed for the invocation
    onDisk,         \* whether a local template argument exists on disk
    pc,             \* position of the main thread in main()
    path,           \* actual_template_path: "unset", "template_file", "temp_file_path"
    tempFile,       \* the download's temporary file: "none", "exists", "deleted"
    unlinkTried,    \* whether the finally block called os.unlink
    pending,        \* exit status and reason carried through the finally block
    exitCode,       \* process exit status, meaningful when pc = "exited"
    exitReason,     \* what ended the process
    observer,       \* the watchdog observer: "none", "started", "stopped"
    obsPc,          \* observer thread: "none", "idle", "compiling", "dead", "finished"
    queue,          \* events the notifier has queued for the handler
    emitted,        \* number of events delivered so far
    activeRuns,     \* threads currently inside compile_template
    overlap,        \* whether two compile_template runs were ever active at once
    lastRun,        \* the latest finished compile_template run
    prevRun,        \* the run finished before lastRun
    report,         \* what on_modified printed for the latest handled event
    engineCalls,    \* engine entry points called, with the path passed
    netCalled,      \* whether a network request was issued
    existsChecked,  \* whether the local-file existence check ran
    runsAfterJoin,  \* whether a run started after observer.join() returned
    policy,         \* the SecurityConfig of the invocation, once built
    pb,             \* a call of create_security_config on its own
    al,             \* a call of handle_allowlist_commands on its own
    gd,             \* calls of _is_safe_output_path on their own
    orch,           \* a call of compile_template on its own
    tm              \* two invocations that differ in --timeout, side by side

vars ==
    << args, onDisk, pc, path, tempFile, unlinkTried, pending, exitCode, exitReason,
       observer, obsPc, queue, emitted, activeRuns, overlap, lastRun, prevRun, report,
       engineCalls, netCalled, existsChecked, runsAfterJoin, policy, pb, al, gd, orch, tm >>

\* The variables of the function-level specifications, which main() and the
\* watch handler leave alone.
sideVars == << pb, al, gd, orch, tm >>

Off == [pc |-> "off"]

\* No SecurityConfig yet.
NoPolicy == [built |-> FALSE, config |-> EnvBase]

Systems == {"Linux"}

Args ==
    [ supported_schema_version : BOOLEAN,
      allowlist : BOOLEAN,
      template : Templates,
      watch : BOOLEAN,
      validate_only : BOOLEAN,
      variables : BOOLEAN,
      output : OutputPaths,
      security_report : BOOLEAN,
      allow_http : BOOLEAN,
      strict : BOOLEAN,
      interactive_allowlist : {"None"},
      verbose : {FALSE},
      no_cache : {FALSE},
      system : Systems ]

\* No compile_template call yet.
NoRequest ==
    [ template_path |-> "unset", output |-> NoOutput, variables |-> FALSE,
      validate_only |-> FALSE, verbose |-> FALSE, watch |-> FALSE, no_cache |-> FALSE,
      security_report |-> FALSE, security_config |-> EnvBase ]

NoRun ==
    [ by |-> "none", result |-> "none", category |-> "none", guard |-> FALSE,
      wrote |-> FALSE, security_config |-> EnvBase, req |-> NoRequest ]

\* Line 802: the one watch main schedules, on the parent directory of the
\* template.
WatchSchedule == [dir |-> "parent", recursive |-> FALSE]

\* File-system changes during a watch session: what happened, to a
\* directory or a file, in the template's parent directory, in a directory
\* below it or elsewhere, and the name of the entry.
Events ==
    { [kind |-> "modified", is_directory |-> TRUE,  dir |-> "parent", name |-> "t.json"],
      [kind |-> "modified", is_directory |-> FALSE, dir |-> "parent", name |-> "t.json"],
      [kind |-> "modified", is_directory |-> FALSE, dir |-> "parent", name |-> "other.json"],
      [kind |-> "created",  is_directory |-> FALSE, dir |-> "parent", name |-> "t.json"],
      [kind |-> "modified", is_directory |-> FALSE, dir |-> "sub",    name |-> "t.json"],
      [kind |-> "modified", is_directory |-> FALSE, dir |-> "other",  name |-> "t.json"] }

\* The changes that reach on_modified: those the scheduled watch covers,
\* and of them the modifications (the handler class defines no other
\* callback, lines 175-240).
Delivered(ev) ==
    /\ \/ ev.dir = WatchSchedule.dir
       \/ (WatchSchedule.recursive /\ ev.dir = "sub")
    /\ ev.kind = "modified"

Init ==
    /\ args \in Args
    /\ onDisk \in BOOLEAN
    /\ pc = "start"
    /\ path = "unset"
    /\ tempFile = "none"
    /\ unlinkTried = FALSE
    /\ pending = [code |-> 0, reason |-> "none"]
    /\ exitCode = 0
    /\ exitReason = "none"
    /\ observer = "none"
    /\ obsPc = "none"
    /\ queue = << >>
    /\ emitted = 0
    /\ activeRuns = {}
    /\ overlap = FALSE
    /\ lastRun = NoRun
    /\ prevRun = NoRun
    /\ report = "none"
    /\ engineCalls = {}
    /\ netCalled = FALSE
    /\ existsChecked = FALSE
    /\ runsAfterJoin = FALSE
    /\ policy = NoPolicy
    /\ pb = Off
    /\ al = Off
    /\ gd = Off
    /\ orch = Off
    /\ tm = Off

\* The process ends with the given status without passing main's finally.
Exit(code, reason) ==
    /\ pc' = "exited"
    /\ exitCode' = code
    /\ exitReason' = reason

mainVars == << pc, path, tempFile, unlinkTried, pending, exitCode, exitReason >>

watchVars == << observer, obsPc, queue, emitted, report >>

runVars == << activeRuns, overlap, lastRun, prevRun, engineCalls, runsAfterJoin >>

\* ------------------------------------------------------------ main thread

\* Lines 717-722: --supported-schema-version prints and returns.
VersionQuery ==
    /\ pc = "start"
    /\ args.supported_schema_version
    /\ Exit(0, "version")
    /\ UNCHANGED << args, onDisk, policy, sideVars, path, tempFile, unlinkTried, pending,
                    netCalled, existsChecked >>
    /\ UNCHANGED watchVars
    /\ UNCHANGED runVars

\* The configuration built before the version query is looked at.
BuildPolicy_BeforeVersion ==
    /\ pc = "start"
    /\ ~policy.built
    /\ pc' = IF args.supported_schema_version THEN "start" ELSE "configured"
    /\ policy' = [built |-> TRUE,
                  config |-> create_security_config(EnvBase, args.allow_http,
                                                    args.interactive_allowlist, args.strict)]
    /\ UNCHANGED << args, onDisk, sideVars, path, tempFile, unlinkTried, pending,
                    exitCode, exitReason, netCalled, existsChecked >>
    /\ UNCHANGED watchVars
    /\ UNCHANGED runVars

\* Lines 724-731: the SecurityConfig is built from the command line.
BuildPolicy ==
    /\ pc = "start"
    /\ ~args.supported_schema_version
    /\ pc' = "configured"
    /\ policy' = [built |-> TRUE,
                  config |-> create_security_config(EnvBase, args.allow_http,
                                                    args.interactive_allowlist, args.strict)]
    /\ UNCHANGED << args, onDisk, sideVars, path, tempFile, unlinkTried, pending,
                    exitCode, exitReason, netCalled, existsChecked >>
    /\ UNCHANGED watchVars
    /\ UNCHANGED runVars

\* Lines 733-745 with handle_allowlist_commands: any allowlist flag runs
\* the dispatcher; it returns True (main returns) or reports and exits 1.
AllowlistDispatch ==
    /\ pc = "configured"
    /\ ~args.supported_schema_version
    /\ args.allowlist
    /\ \E ok \in BOOLEAN :
          IF ok THEN Exit(0, "allowlist") ELSE Exit(1, "allowlist_error")
    /\ UNCHANGED << args, onDisk, policy, sideVars, path, tempFile, unlinkTried, pending,
                    netCalled, existsChecked >>
    /\ UNCHANGED watchVars
    /\ UNCHANGED runVars

\* Lines 747-751: no template argument.
MissingTemplate ==
    /\ pc = "configured"
    /\ ~args.supported_schema_version
    /\ ~args.allowlist
    /\ args.template = NoTemplate
    /\ Exit(1, "missing_template")
    /\ UNCHANGED << args, onDisk, policy, sideVars, path, tempFile, unlinkTried, pending,
                    netCalled, existsChecked >>
    /\ UNCHANGED watchVars
    /\ UNCHANGED runVars

\* Lines 753-765: a URL is downloaded, a local path is checked to exist.
ResolveInput ==
    /\ pc = "configured"
    /\ ~args.supported_schema_version
    /\ ~args.allowlist
    /\ args.template # NoTemplate
    /\ IF is_url(args.template)
       THEN \E net \in NetOutcomes :
              LET d == download_template(args.template, policy.config.network.allow_http, net) IN
              /\ netCalled' = d.network
              /\ tempFile' = IF d.temp THEN "exists" ELSE "none"
              /\ existsChecked' = existsChecked
              /\ IF d.result = "SystemExit"
                 THEN Exit(1, "download") /\ path' = path
                 ELSE /\ pc' = "resolved"
                      /\ path' = "temp_file_path"
                      /\ UNCHANGED << exitCode, exitReason >>
       ELSE /\ existsChecked' = TRUE
            /\ UNCHANGED << netCalled, tempFile >>
            /\ IF ~onDisk
               THEN Exit(1, "not_found") /\ path' = path
               ELSE /\ pc' = "resolved"
                    /\ path' = "template_file"
                    /\ UNCHANGED << exitCode, exitReason >>
    /\ UNCHANGED << args, onDisk, policy, sideVars, unlinkTried, pending >>
    /\ UNCHANGED watchVars
    /\ UNCHANGED runVars

\* Lines 767-771: the two watch preconditions, raised as click.ClickException
\* (exit status 1) before the try block.
Precheck ==
    /\ pc = "resolved"
    /\ IF args.watch /\ args.validate_only THEN Exit(1, "usage")
       ELSE IF args.watch /\ is_url(args.template) THEN Exit(1, "usage")
       ELSE pc' = "initial" /\ UNCHANGED << exitCode, exitReason >>
    /\ UNCHANGED << args, onDisk, policy, sideVars, path, tempFile, unlinkTried, pending,
                    netCalled, existsChecked >>
    /\ UNCHANGED watchVars
    /\ UNCHANGED runVars

\* main passing the template argument itself, the URL, to the engine.
InitialRequest_Url ==
    [ template_path |-> "template_file", output |-> args.output, variables |-> args.variables,
      validate_only |-> args.validate_only, verbose |-> args.verbose,
      watch |-> args.watch, no_cache |-> args.no_cache,
      security_report |-> args.security_report, security_config |-> policy.config ]

\* The request main passes to compile_template (lines 775-785).
InitialRequest ==
    [ template_path |-> path, output |-> args.output, variables |-> args.variables,
      validate_only |-> args.validate_only, verbose |-> args.verbose,
      watch |-> args.watch, no_cache |-> args.no_cache,
      security_report |-> args.security_report, security_config |-> policy.config ]

\* main passing watch_mode=True to the initial run.
InitialWatchMode_True == TRUE

\* main calls compile_template without watch_mode, which defaults to False
\* (line 396).
InitialWatchMode == FALSE

\* A thread enters compile_template.
BeginRun(who) ==
    /\ activeRuns' = activeRuns \cup {who}
    /\ overlap' = (overlap \/ activeRuns # {})
    /\ runsAfterJoin' = (runsAfterJoin \/ pc \in {"finally", "exited"})

\* A thread's compile_template call ends with outcome r for request req.
EndRun(who, req, r) ==
    /\ activeRuns' = activeRuns \ {who}
    /\ prevRun' = lastRun
    /\ lastRun' = [ by |-> who, result |-> r.result, category |-> r.category,
                    guard |-> r.guard, wrote |-> r.wrote,
                    security_config |-> req.security_config, req |-> req ]
    /\ engineCalls' =
          IF r.engine = "none" THEN engineCalls
          ELSE engineCalls \cup {[entry |-> r.engine, path |-> req.template_path, by |-> who]}

\* main starting the observer before the initial run instead of after it.
InitialBegin_ObserverFirst ==
    /\ pc = "initial"
    /\ pc' = "initial_run"
    /\ BeginRun("main")
    /\ observer' = IF args.watch THEN "started" ELSE observer
    /\ obsPc' = IF args.watch THEN "idle" ELSE obsPc
    /\ UNCHANGED << args, onDisk, policy, sideVars, path, tempFile, unlinkTried, pending, exitCode,
                    exitReason, lastRun, prevRun, engineCalls, netCalled, existsChecked,
                    queue, emitted, report >>

\* Line 775: the initial run starts inside main's try block.
InitialBegin ==
    /\ pc = "initial"
    /\ pc' = "initial_run"
    /\ BeginRun("main")
    /\ UNCHANGED << args, onDisk, policy, sideVars, path, tempFile, unlinkTried, pending, exitCode,
                    exitReason, lastRun, prevRun, engineCalls, netCalled, existsChecked >>
    /\ UNCHANGED watchVars

\* Lines 775-788: the initial run ends.  sys.exit(1) inside it, or an
\* exception nothing catches, unwinds through the finally block and ends
\* the process with status 1; otherwise main goes on to the watch branch
\* or falls out of the try block.
InitialEnd ==
    /\ pc = "initial_run"
    /\ \E r \in Outcomes(InitialRequest, InitialWatchMode, args.system) :
          /\ EndRun("main", InitialRequest, r)
          /\ IF r.result \notin {"True", "False"}
             THEN pc' = "finally" /\ pending' = [code |-> 1, reason |-> r.category]
             ELSE IF args.watch
             THEN pc' = "start_watch" /\ pending' = pending
             ELSE pc' = "finally" /\ pending' = [code |-> 0, reason |-> "success"]
    /\ UNCHANGED << args, onDisk, policy, sideVars, path, tempFile, unlinkTried, exitCode, exitReason,
                    overlap, runsAfterJoin, netCalled, existsChecked >>
    /\ UNCHANGED watchVars

\* An interrupt signal during the initial run: KeyboardInterrupt passes every
\* except clause of compile_template, unwinds through the finally block and
\* click ends the process with status 1.
InterruptRun ==
    /\ pc = "initial_run"
    /\ pc' = "finally"
    /\ pending' = [code |-> 1, reason |-> "interrupt"]
    /\ activeRuns' = activeRuns \ {"main"}
    /\ UNCHANGED << args, onDisk, policy, sideVars, path, tempFile, unlinkTried, exitCode, exitReason,
                    overlap, lastRun, prevRun, engineCalls, runsAfterJoin,
                    netCalled, existsChecked >>
    /\ UNCHANGED watchVars

\* Lines 793-803: the handler is scheduled and the observer thread started.
StartWatch ==
    /\ pc = "start_watch"
    /\ pc' = "watching"
    /\ observer' = "started"
    /\ obsPc' = "idle"
    /\ UNCHANGED << args, onDisk, policy, sideVars, path, tempFile, unlinkTried, pending, exitCode,
                    exitReason, queue, emitted, report, netCalled, existsChecked >>
    /\ UNCHANGED runVars

\* Lines 805-810: KeyboardInterrupt in the sleep loop; observer.stop().
Interrupt ==
    /\ pc = "watching"
    /\ pc' = "joining"
    /\ observer' = "stopped"
    /\ UNCHANGED << args, onDisk, policy, sideVars, path, tempFile, unlinkTried, pending, exitCode,
                    exitReason, obsPc, queue, emitted, report, netCalled, existsChecked >>
    /\ UNCHANGED runVars

\* main going on after observer.stop() without waiting for the thread.
Join_NoWait ==
    /\ pc = "joining"
    /\ pc' = "finally"
    /\ pending' = [code |-> 0, reason |-> "interrupt_watch"]
    /\ UNCHANGED << args, onDisk, policy, sideVars, path, tempFile, unlinkTried, exitCode, exitReason,
                    netCalled, existsChecked >>
    /\ UNCHANGED watchVars
    /\ UNCHANGED runVars

\* Line 811: observer.join() returns once the observer thread has ended.
Join ==
    /\ pc = "joining"
    /\ obsPc \in {"finished", "dead"}
    /\ pc' = "finally"
    /\ pending' = [code |-> 0, reason |-> "interrupt_watch"]
    /\ UNCHANGED << args, onDisk, policy, sideVars, path, tempFile, unlinkTried, exitCode, exitReason,
                    netCalled, existsChecked >>
    /\ UNCHANGED watchVars
    /\ UNCHANGED runVars

\* Lines 813-823: the finally block unlinks the temporary file, ignoring
\* OSError, and the process ends with the pending status.
Finally ==
    /\ pc = "finally"
    /\ IF path = "temp_file_path"
       THEN \E u \in UnlinkOutcomes :
              /\ unlinkTried' = TRUE
              /\ tempFile' = IF u = "ok" THEN "deleted" ELSE tempFile
       ELSE UNCHANGED << unlinkTried, tempFile >>
    /\ Exit(pending.code, pending.reason)
    /\ UNCHANGED << args, onDisk, policy, sideVars, path, pending, netCalled, existsChecked >>
    /\ UNCHANGED watchVars
    /\ UNCHANGED runVars

\* -------------------------------------------------------- observer thread

\* The notifier queues an event of the watched directory (observer
\* scheduled on the template's parent directory, line 802).
FsEvent ==
    /\ observer = "started"
    /\ emitted < MaxEvents
    /\ \E ev \in Events : queue' = IF Delivered(ev) THEN Append(queue, ev) ELSE queue
    /\ emitted' = emitted + 1
    /\ UNCHANGED << args, onDisk, policy, sideVars, observer, obsPc, report, netCalled, existsChecked >>
    /\ UNCHANGED mainVars
    /\ UNCHANGED runVars

\* The filter without the test of is_directory.
Qualifies_NameOnly(ev) == ev.name = "t.json"

\* Lines 193-197: the event filter of on_modified.
Qualifies(ev) == ~ev.is_directory /\ ev.name = "t.json"

\* on_modified returns at once for an event that does not qualify.
IgnoreEvent ==
    /\ observer = "started"
    /\ obsPc = "idle"
    /\ queue # << >>
    /\ ~Qualifies(Head(queue))
    /\ queue' = Tail(queue)
    /\ UNCHANGED << args, onDisk, policy, sideVars, observer, obsPc, emitted, report, netCalled, existsChecked >>
    /\ UNCHANGED mainVars
    /\ UNCHANGED runVars

\* on_modified building a configuration of its own for each run.
HandlerRequest_OwnConfig ==
    [ template_path |-> path, output |-> args.output, variables |-> args.variables,
      validate_only |-> FALSE, verbose |-> args.verbose, watch |-> FALSE,
      no_cache |-> FALSE, security_report |-> FALSE,
      security_config |-> create_security_config(EnvBase, FALSE, "None", FALSE) ]

\* on_modified handing on the session's --no-cache and --security-report.
HandlerRequest_AsInitial ==
    [ template_path |-> path, output |-> args.output, variables |-> args.variables,
      validate_only |-> FALSE, verbose |-> args.verbose, watch |-> FALSE,
      no_cache |-> args.no_cache, security_report |-> args.security_report,
      security_config |-> policy.config ]

\* The request on_modified passes to compile_template (lines 200-211); the
\* paths, the verbosity and the configuration are the ones the handler was
\* constructed with (lines 186-190, 793-799).
HandlerRequest ==
    [ template_path |-> path, output |-> args.output, variables |-> args.variables,
      validate_only |-> FALSE, verbose |-> args.verbose, watch |-> FALSE,
      no_cache |-> FALSE, security_report |-> FALSE,
      security_config |-> policy.config ]

\* on_modified leaving watch_mode at its default.
HandlerWatchMode_Default == FALSE

\* on_modified passes watch_mode=True (line 210).
HandlerWatchMode == TRUE

\* Lines 198-200: on_modified enters compile_template for a qualifying event.
HandlerBegin ==
    /\ observer = "started"
    /\ obsPc = "idle"
    /\ queue # << >>
    /\ Qualifies(Head(queue))
    /\ queue' = Tail(queue)
    /\ obsPc' = "compiling"
    /\ BeginRun("observer")
    /\ UNCHANGED << args, onDisk, policy, sideVars, observer, emitted, report, lastRun, prevRun,
                    engineCalls, netCalled, existsChecked >>
    /\ UNCHANGED mainVars

\* Lines 213-240: what on_modified prints for the outcome of the run;
\* "propagates" when the exception passes both except clauses.
on_modified_report(result) ==
    IF result = "True" THEN "success"
    ELSE IF result = "False" THEN "waiting"
    ELSE IF IsInstance(result, "ITSError") THEN "compilation_failed"
    ELSE IF IsInstance(result, "Exception") THEN "unexpected_error"
    ELSE "propagates"

\* The run of on_modified ends.  An exception that leaves on_modified ends
\* the observer thread (the interpreter drops SystemExit raised in a thread);
\* the process and the main thread go on.
HandlerEnd ==
    /\ obsPc = "compiling"
    /\ \E r \in Outcomes(HandlerRequest, HandlerWatchMode, args.system) :
          /\ EndRun("observer", HandlerRequest, r)
          /\ report' = IF on_modified_report(r.result) = "propagates"
                        THEN report
                        ELSE on_modified_report(r.result)
          /\ obsPc' = IF on_modified_report(r.result) = "propagates" THEN "dead" ELSE "idle"
    /\ UNCHANGED << args, onDisk, policy, sideVars, observer, queue, emitted, overlap, runsAfterJoin,
                    netCalled, existsChecked >>
    /\ UNCHANGED mainVars

\* After observer.stop() the observer thread leaves its dispatch loop as
\* soon as it is not inside a handler.
ObserverStop ==
    /\ observer = "stopped"
    /\ obsPc = "idle"
    /\ obsPc' = "finished"
    /\ UNCHANGED << args, onDisk, policy, sideVars, observer, queue, emitted, report, netCalled, existsChecked >>
    /\ UNCHANGED mainVars
    /\ UNCHANGED runVars

\* ----------------------------------------------------------- specification

Next ==
    \/ VersionQuery
    \/ BuildPolicy
    \/ AllowlistDispatch
    \/ MissingTemplate
    \/ ResolveInput
    \/ Precheck
    \/ InitialBegin
    \/ InitialEnd
    \/ InterruptRun
    \/ StartWatch
    \/ Interrupt
    \/ Join
    \/ Finally
    \/ FsEvent
    \/ IgnoreEvent
    \/ HandlerBegin
    \/ HandlerEnd
    \/ ObserverStop

Spec == Init /\ [][Next]_vars

\* ------------------------------------- create_security_config on its own

\* main() and the watch handler are not running.
MainOff ==
    /\ args = Off
    /\ onDisk = FALSE
    /\ pc = "off"
    /\ path = "unset"
    /\ tempFile = "none"
    /\ unlinkTried = FALSE
    /\ pending = [code |-> 0, reason |-> "none"]
    /\ exitCode = 0
    /\ exitReason = "none"
    /\ observer = "none"
    /\ obsPc = "none"
    /\ queue = << >>
    /\ emitted = 0
    /\ activeRuns = {}
    /\ overlap = FALSE
    /\ lastRun = NoRun
    /\ prevRun = NoRun
    /\ report = "none"
    /\ engineCalls = {}
    /\ netCalled = FALSE
    /\ existsChecked = FALSE
    /\ runsAfterJoin = FALSE
    /\ policy = NoPolicy

mainAll ==
    << args, onDisk, pc, path, tempFile, unlinkTried, pending, exitCode, exitReason,
       observer, obsPc, queue, emitted, activeRuns, overlap, lastRun, prevRun, report,
       engineCalls, netCalled, existsChecked, runsAfterJoin, policy >>

\* ------------------------------------------------- the output guard alone

\* The separator of resolved paths on each platform.
Sep(system) == IF system = "Windows" THEN "\\" ELSE "/"

\* Directories a resolved path can begin with: the deny-listed ones, the
\* same in capitals, ordinary ones, and ones whose name begins with the
\* characters of a deny-listed one ("/etcetera", "C:\Windows.old").
GuardPrefixes(system) ==
    IF system = "Windows"
    THEN system_dirs_windows \cup { Upper(d) : d \in system_dirs_windows }
         \cup { <<"C", ":", "\\", "U", "s", "e", "r", "s">>, <<"D", ":", "\\", "o">>,
                <<"C", ":", "\\", "W", "i", "n", "d", "o", "w", "s", ".", "o", "l", "d">> }
    ELSE system_dirs_posix \cup { Upper(d) : d \in system_dirs_posix }
         \cup { <<"/", "o">>, <<"/", "h", "o", "m", "e">>,
                <<"/", "e", "t", "c", "e", "t", "e", "r", "a">>,
                <<"/", "d", "e", "v", "e", "l">> }

\* What follows the directory: nothing, a file name, or a file name with
\* one of the markers in it.
GuardSuffixes(system) ==
    { << >>, <<Sep(system), "x">> } \cup
    { <<Sep(system), "x">> \o m \o <<"y">> : m \in dangerous_patterns }

GuardPaths(system) ==
    { d \o sfx : d \in GuardPrefixes(system), sfx \in GuardSuffixes(system) }

\* Lines 577-610: resolve() raising is caught and answered False.
GuardResult(raises, path_str, system) ==
    IF raises THEN FALSE ELSE _is_safe_output_path(path_str, system)

\* One path on one platform; resolve() either raises or yields the path.
InitGuard ==
    /\ MainOff
    /\ pb = Off
    /\ al = Off
    /\ orch = Off
    /\ tm = Off
    /\ \E system \in {"Linux", "Windows"}, raises \in BOOLEAN :
          \E path_str \in GuardPaths(system) :
             gd = [ pc |-> "start", system |-> system, raises |-> raises,
                    path_str |-> path_str, first |-> FALSE, second |-> FALSE ]

\* The guard is called on the path.
GdCall ==
    /\ gd.pc = "start"
    /\ gd' = [gd EXCEPT !.pc = "once",
                        !.first = GuardResult(gd.raises, gd.path_str, gd.system)]
    /\ UNCHANGED << mainAll, pb, al, orch, tm >>

\* The guard is called again on the same path.
GdCallAgain ==
    /\ gd.pc = "once"
    /\ gd' = [gd EXCEPT !.pc = "twice",
                        !.second = GuardResult(gd.raises, gd.path_str, gd.system)]
    /\ UNCHANGED << mainAll, pb, al, orch, tm >>

NextGuard == GdCall \/ GdCallAgain

SpecGuard == InitGuard /\ [][NextGuard]_vars

\* ------------------------------------------------ one orchestrator run alone

\* The requests compile_template can be called with; the template lies in
\* an ordinary directory or below /etc.
Requests ==
    [ template_path : { <<"/", "i", "/", "t">>, <<"/", "e", "t", "c", "/", "t">> },
      output : OutputPaths,
      variables : BOOLEAN,
      validate_only : BOOLEAN,
      security_report : BOOLEAN,
      security_config : {EnvBase} ]

NoOutcome == Outcome("none", "none", "none", FALSE, FALSE, "none")

\* One call of compile_template: any request, any environment the request
\* can meet, either value of watch_mode.
InitRun ==
    /\ MainOff
    /\ pb = Off
    /\ al = Off
    /\ gd = Off
    /\ tm = Off
    /\ \E req \in Requests, watch_mode \in BOOLEAN, system \in Systems :
          \E env \in Envs(req) :
             orch = [ pc |-> "call", req |-> req, env |-> env,
                      watch_mode |-> watch_mode, system |-> system,
                      out |-> NoOutcome ]

\* Lines 386-574: the call runs to its return or to the exception leaving it.
OrchCall ==
    /\ orch.pc = "call"
    /\ orch' = [orch EXCEPT !.pc = "returned",
                            !.out = compile_template(orch.req, orch.env,
                                                     orch.watch_mode, orch.system)]
    /\ UNCHANGED << mainAll, pb, al, gd, tm >>

NextRun == OrchCall

SpecRun == InitRun /\ [][NextRun]_vars

\* ------------------------------------------------- input resolution alone

\* Template arguments for the resolver: the ones of Templates, a scheme typed
\* in capitals, and a scheme without a network location ("file:///t.json").
ResolveTemplates ==
    (Templates \ {NoTemplate}) \cup
    { [scheme |-> "HTTPS", netloc |-> "h", path |-> "/t.json"],
      [scheme |-> "HTTP",  netloc |-> "h", path |-> "/t.json"],
      [scheme |-> "file",  netloc |-> "",  path |-> "/t.json"] }

\* main() at line 753, on the compile path without --watch: the policy has
\* been built (lines 727-731) from any environment baseline.
InitResolve ==
    /\ args \in [ supported_schema_version : {FALSE}, allowlist : {FALSE},
                  template : ResolveTemplates, watch : {FALSE},
                  validate_only : BOOLEAN, variables : {FALSE},
                  output : {NoOutput}, security_report : {FALSE},
                  allow_http : BOOLEAN, strict : BOOLEAN,
                  interactive_allowlist : {"None"}, verbose : {FALSE},
                  no_cache : {FALSE}, system : Systems ]
    /\ onDisk \in BOOLEAN
    /\ pc = "configured"
    /\ \E env \in EnvDefaults :
          policy = [built |-> TRUE,
                    config |-> create_security_config(env, args.allow_http,
                                                      args.interactive_allowlist,
                                                      args.strict)]
    /\ path = "unset"
    /\ tempFile = "none"
    /\ unlinkTried = FALSE
    /\ pending = [code |-> 0, reason |-> "none"]
    /\ exitCode = 0
    /\ exitReason = "none"
    /\ observer = "none"
    /\ obsPc = "none"
    /\ queue = << >>
    /\ emitted = 0
    /\ activeRuns = {}
    /\ overlap = FALSE
    /\ lastRun = NoRun
    /\ prevRun = NoRun
    /\ report = "none"
    /\ engineCalls = {}
    /\ netCalled = FALSE
    /\ existsChecked = FALSE
    /\ runsAfterJoin = FALSE
    /\ pb = Off
    /\ al = Off
    /\ gd = Off
    /\ orch = Off
    /\ tm = Off

NextResolve ==
    \/ ResolveInput
    \/ Precheck
    \/ InitialBegin
    \/ InitialEnd
    \/ InterruptRun
    \/ Finally

SpecResolve == InitResolve /\ [][NextResolve]_vars

\* ------------------------------------------------------ watch sessions alone

\* main() entered with --watch on a local template that exists, with every
\* value of --verbose, --no-cache and --security-report.
InitWatch ==
    /\ args \in [ supported_schema_version : {FALSE}, allowlist : {FALSE},
                  template : {[scheme |-> "", netloc |-> "", path |-> "t.json"]},
                  watch : {TRUE}, validate_only : {FALSE}, variables : BOOLEAN,
                  output : {NoOutput, <<"/", "o", "/", "x">>},
                  security_report : BOOLEAN, allow_http : {FALSE}, strict : {FALSE},
                  interactive_allowlist : {"None"}, verbose : BOOLEAN,
                  no_cache : BOOLEAN, system : Systems ]
    /\ onDisk = TRUE
    /\ pc = "start"
    /\ policy = NoPolicy
    /\ path = "unset"
    /\ tempFile = "none"
    /\ unlinkTried = FALSE
    /\ pending = [code |-> 0, reason |-> "none"]
    /\ exitCode = 0
    /\ exitReason = "none"
    /\ observer = "none"
    /\ obsPc = "none"
    /\ queue = << >>
    /\ emitted = 0
    /\ activeRuns = {}
    /\ overlap = FALSE
    /\ lastRun = NoRun
    /\ prevRun = NoRun
    /\ report = "none"
    /\ engineCalls = {}
    /\ netCalled = FALSE
    /\ existsChecked = FALSE
    /\ runsAfterJoin = FALSE
    /\ pb = Off
    /\ al = Off
    /\ gd = Off
    /\ orch = Off
    /\ tm = Off

NextWatch ==
    \/ BuildPolicy
    \/ ResolveInput
    \/ Precheck
    \/ InitialBegin
    \/ InitialEnd
    \/ InterruptRun
    \/ StartWatch
    \/ Interrupt
    \/ Join
    \/ Finally
    \/ FsEvent
    \/ IgnoreEvent
    \/ HandlerBegin
    \/ HandlerEnd
    \/ ObserverStop

SpecWatch == InitWatch /\ [][NextWatch]_vars

\* --------------------------------------------------- the download timeout

\* "No request_timeout attribute" in a network configuration.
NoTimeout == -1

\* The default of getattr at line 147 and of --timeout at line 632.
DefaultTimeout == 30

\* Values of --timeout and of the policy's request_timeout.
Timeouts == {5, DefaultTimeout, 60}

\* main taking the policy's request timeout from --timeout.
MainPolicy_Timeout(env, cli) ==
    LET config == create_security_config(env, cli.allow_http, cli.interactive_allowlist,
                                         cli.strict)
    IN [config EXCEPT !.network.request_timeout = cli.timeout]

\* Lines 727-731: the policy main builds from the command line cli; the
\* timeout parameter of main (line 697) is read nowhere.
MainPolicy(env, cli) ==
    create_security_config(env, cli.allow_http, cli.interactive_allowlist, cli.strict)

\* Line 147: the timeout download_template passes to urlopen.
DownloadTimeout(config) ==
    IF config.network.request_timeout = NoTimeout
    THEN DefaultTimeout
    ELSE config.network.request_timeout

\* Two invocations in the same environment whose command lines differ at
\* most in --timeout.
InitTimeout ==
    /\ MainOff
    /\ pb = Off
    /\ al = Off
    /\ gd = Off
    /\ orch = Off
    /\ \E base \in EnvDefaults, rt \in Timeouts \cup {NoTimeout},
          allow_http \in BOOLEAN, strict \in BOOLEAN, t1 \in Timeouts, t2 \in Timeouts :
          LET cli(t) == [ allow_http |-> allow_http, interactive_allowlist |-> "None",
                          strict |-> strict, timeout |-> t ]
              env == [base EXCEPT !.network.request_timeout = rt]
          IN tm = [ pc |-> "start", env |-> env, cli1 |-> cli(t1), cli2 |-> cli(t2),
                    config1 |-> env, config2 |-> env, used1 |-> 0, used2 |-> 0 ]

\* Both invocations build their policy.
TmBuild ==
    /\ tm.pc = "start"
    /\ tm' = [tm EXCEPT !.pc = "built",
                        !.config1 = MainPolicy(tm.env, tm.cli1),
                        !.config2 = MainPolicy(tm.env, tm.cli2)]
    /\ UNCHANGED << mainAll, pb, al, gd, orch >>

\* Both invocations reach urlopen in download_template.
TmDownload ==
    /\ tm.pc = "built"
    /\ tm' = [tm EXCEPT !.pc = "requested",
                        !.used1 = DownloadTimeout(tm.config1),
                        !.used2 = DownloadTimeout(tm.config2)]
    /\ UNCHANGED << mainAll, pb, al, gd, orch >>

NextTimeout == TmBuild \/ TmDownload

SpecTimeout == InitTimeout /\ [][NextTimeout]_vars

\* ------------------------------------------------ policy construction alone

\* The inputs of one create_security_config call: the environment baseline
\* and the three command-line options.
InitPolicy ==
    /\ MainOff
    /\ pb \in [ pc : {"start"}, env : EnvDefaults, allow_http : BOOLEAN,
                 interactive_allowlist : InteractiveChoices, strict_mode : BOOLEAN,
                 config : {EnvBase} ]
    /\ al = Off
    /\ gd = Off
    /\ orch = Off
    /\ tm = Off

\* Lines 270-294: the call returns the configuration.
PbBuild ==
    /\ pb.pc = "start"
    /\ pb' = [pb EXCEPT !.pc = "built",
                        !.config = create_security_config(pb.env, pb.allow_http,
                                                          pb.interactive_allowlist,
                                                          pb.strict_mode)]
    /\ UNCHANGED << mainAll, al, gd, orch, tm >>

NextPolicy == PbBuild

SpecPolicy == InitPolicy /\ [][NextPolicy]_vars

\* ---------------------------------- handle_allowlist_commands on its own

\* The six allowlist flags, in the order their blocks appear (lines 325-377).
AllowlistOrder == << "status", "add", "remove", "export", "import", "cleanup" >>

AllowlistFlags == { AllowlistOrder[i] : i \in 1..Len(AllowlistOrder) }

\* Position of a flag's block in handle_allowlist_commands.
Pos(f) == CHOOSE i \in 1..Len(AllowlistOrder) : AllowlistOrder[i] = f

\* What an AllowlistManager call does: remove_url returns whether the entry
\* was found; every call can raise.
StoreOutcomes(f) == IF f = "remove" THEN {"ok", "not_found", "raise"} ELSE {"ok", "raise"}

\* One call of handle_allowlist_commands with any set of the six flags.
\*   at        the block the call has reached
\*   attempted the AllowlistManager operations called so far
\*   failed    the operation that raised, "none" when none did
\*   warned    whether the "not found" warning was printed
\*   reported  whether the error of the except clause was printed
\*   result    "none", "False", "True", or "exit1" for sys.exit(1)
InitAllowlist ==
    /\ MainOff
    /\ pb = Off
    /\ al \in [ pc : {"run"}, flags : SUBSET AllowlistFlags, merge : BOOLEAN,
                 at : {"entry"}, attempted : {<< >>}, failed : {"none"},
                 warned : {FALSE}, reported : {FALSE}, result : {"none"} ]
    /\ gd = Off
    /\ orch = Off
    /\ tm = Off

\* Lines 310-320: no flag, nothing to do.
AlNoFlags ==
    /\ al.pc = "run"
    /\ al.at = "entry"
    /\ al.flags = {}
    /\ al' = [al EXCEPT !.at = "returned", !.result = "False"]
    /\ UNCHANGED << mainAll, pb, gd, orch, tm >>

\* Lines 381-383: the except clause reports and exits with status 1.
AlFail(f) ==
    [al EXCEPT !.at = "exited", !.failed = f, !.reported = TRUE, !.result = "exit1"]

\* Line 323: the AllowlistManager is constructed inside the try block.
AlManager ==
    /\ al.pc = "run"
    /\ al.at = "entry"
    /\ al.flags # {}
    /\ \E o \in {"ok", "raise"} :
          al' = IF o = "raise" THEN AlFail("manager") ELSE [al EXCEPT !.at = "status"]
    /\ UNCHANGED << mainAll, pb, gd, orch, tm >>

\* Where the call goes after the block of flag f.
AfterBlock(f) ==
    IF Pos(f) = Len(AllowlistOrder) THEN "return" ELSE AllowlistOrder[Pos(f) + 1]

\* A block whose failure is reported without ending the call.
AlBlock_Continue(f) ==
    /\ al.pc = "run"
    /\ al.at = f
    /\ IF f \notin al.flags
       THEN al' = [al EXCEPT !.at = AfterBlock(f)]
       ELSE \E o \in StoreOutcomes(f) :
              al' = IF o = "raise"
                    THEN [al EXCEPT !.at = AfterBlock(f), !.failed = f, !.reported = TRUE,
                                    !.attempted = Append(al.attempted, f)]
                    ELSE [al EXCEPT !.at = AfterBlock(f),
                                    !.attempted = Append(al.attempted, f),
                                    !.warned = (al.warned \/ o = "not_found")]
    /\ UNCHANGED << mainAll, pb, gd, orch, tm >>

\* The block of flag f (lines 325-377): skipped when the flag is absent;
\* otherwise the store operation is called and, when it raises, the except
\* clause ends the process.  A remove that finds nothing prints a warning.
AlBlock(f) ==
    /\ al.pc = "run"
    /\ al.at = f
    /\ IF f \notin al.flags
       THEN al' = [al EXCEPT !.at = AfterBlock(f)]
       ELSE \E o \in StoreOutcomes(f) :
              al' = IF o = "raise"
                    THEN [AlFail(f) EXCEPT !.attempted = Append(al.attempted, f)]
                    ELSE [al EXCEPT !.at = AfterBlock(f),
                                    !.attempted = Append(al.attempted, f),
                                    !.warned = (al.warned \/ o = "not_found")]
    /\ UNCHANGED << mainAll, pb, gd, orch, tm >>

AlStatus == AlBlock("status")

AlAdd == AlBlock("add")

AlRemove == AlBlock("remove")

AlExport == AlBlock("export")

AlImport == AlBlock("import")

AlCleanup == AlBlock("cleanup")

\* Line 379: return True.
AlReturn ==
    /\ al.pc = "run"
    /\ al.at = "return"
    /\ al' = [al EXCEPT !.at = "returned", !.result = "True"]
    /\ UNCHANGED << mainAll, pb, gd, orch, tm >>

NextAllowlist ==
    \/ AlNoFlags
    \/ AlManager
    \/ AlStatus
    \/ AlAdd
    \/ AlRemove
    \/ AlExport
    \/ AlImport
    \/ AlCleanup
    \/ AlReturn

SpecAllowlist == InitAllowlist /\ [][NextAllowlist]_vars

\* ------------------------------------------------------------------ claims

\* The invocation reaches input resolution: no version query, no allowlist
\* flag, a template argument given.
Pipeline ==
    /\ ~args.supported_schema_version
    /\ ~args.allowlist
    /\ args.template # NoTemplate

\* A watch invocation on a local template that exists.
WatchLocal ==
    /\ Pipeline
    /\ args.watch
    /\ ~args.validate_only
    /\ ~is_url(args.template)
    /\ onDisk

\* C1: in a watch invocation on a local template no failed orchestrator run,
\* the initial one included, ends the process or the watching: the process
\* exits only after an interrupt, with status 0 after an interrupt of the
\* watch loop, and a started observer keeps dispatching.
C1_WatchSurvivesFailure ==
    WatchLocal =>
        /\ pc = "exited" => exitReason \in {"interrupt_watch", "interrupt"}
        /\ (pc = "exited" /\ exitReason = "interrupt_watch") => exitCode = 0
        /\ observer = "started" => obsPc # "dead"

\* C2: a watch-triggered run that fails because the engine raised (security,
\* validation, compilation, generic engine or unclassified error) returns a
\* failed outcome that on_modified reports while the observer thread and the
\* process stay alive; an engine exception that leaves compile_template is
\* reported by on_modified itself, which returns normally; and a handled
\* event whose run succeeds is reported as a success.
C2_WatchRepair ==
    /\ (lastRun.by = "observer" /\ lastRun.category \in EngineErrors) =>
          /\ lastRun.result = "False"
          /\ report = "waiting"
          /\ obsPc # "dead"
          /\ pc = "exited" => exitReason = "interrupt_watch"
    /\ (lastRun.by = "observer" /\ lastRun.category = "unhandled") =>
          /\ report \in {"compilation_failed", "unexpected_error"}
          /\ obsPc # "dead"
          /\ pc = "exited" => exitReason = "interrupt_watch"
    /\ (lastRun.by = "observer" /\ lastRun.category = "success") =>
          /\ lastRun.result = "True"
          /\ report = "success"

\* C2 witness: an engine failure was reported, the next event's run
\* succeeded and the session is still watching.
C2_Witness ==
    /\ prevRun.by = "observer"
    /\ prevRun.category = "ITSValidationError"
    /\ lastRun.by = "observer"
    /\ lastRun.result = "True"
    /\ report = "success"
    /\ pc = "watching"
    /\ observer = "started"
    /\ obsPc = "idle"

\* C3: in a watch-triggered run every variables-file failure makes
\* compile_template return False to the handler, nothing leaves
\* compile_template and the observer thread lives on to take the next event.
C3_VariablesRecoverable ==
    (lastRun.by = "observer" /\ lastRun.category = "variables") =>
        /\ lastRun.result = "False"
        /\ obsPc # "dead"

C5_TempReleased ==
    pc = "exited" => (tempFile # "exists" \/ unlinkTried)

\* C6: a non-watch invocation whose URL download succeeded passes the
\* temporary file's path to every engine call, and, whatever the run's
\* outcome, the process ends only after the finally block has unlinked the
\* temporary file; the exit status is that of the run alone, whether or not
\* the unlink succeeded.
C6_TempFileRun ==
    (path = "temp_file_path" /\ ~args.watch) =>
        /\ \A c \in engineCalls : c.path = "temp_file_path"
        /\ pc = "exited" =>
              /\ unlinkTried
              /\ exitCode = IF lastRun.by = "main" /\ lastRun.result = "True" THEN 0 ELSE 1

\* C6 witness: the engine ran on the temporary file, the run failed with
\* status 1 and the temporary file is gone.
C6_Witness ==
    /\ ~args.watch
    /\ args.template.scheme = "https"
    /\ pc = "exited"
    /\ exitCode = 1
    /\ tempFile = "deleted"
    /\ \E c \in engineCalls : c.path = "temp_file_path" /\ c.entry = "compile_file"

\* C7: with --watch and --validate-only together the invocation performs no
\* file resolution step (existence check or download) and no engine call,
\* and ends with a usage error, whatever the template argument.
C7_UsageBeforeResolution ==
    (Pipeline /\ args.watch /\ args.validate_only) =>
        /\ ~existsChecked
        /\ ~netCalled
        /\ tempFile = "none"
        /\ engineCalls = {}
        /\ pc = "exited" => exitReason = "usage"

\* C8: an invocation with --watch and --validate-only, or with --watch and a
\* URL template, never starts an observer, never calls the engine and ends
\* with a usage error and exit status 1.
C8_WatchPreconditions ==
    (Pipeline /\ args.watch /\ (args.validate_only \/ is_url(args.template))) =>
        /\ observer = "none"
        /\ obsPc = "none"
        /\ engineCalls = {}
        /\ pc = "exited" => (exitReason = "usage" /\ exitCode = 1)

\* C9: at most one compile_template run is active at any time: the initial
\* run is over before the observer is started, and the observer thread is
\* inside at most one run, later events waiting in the queue.
C9_NoOverlap ==
    /\ ~overlap
    /\ Cardinality(activeRuns) <= 1
    /\ "main" \in activeRuns => (observer = "none" /\ pc = "initial_run")
    /\ "observer" \in activeRuns <=> obsPc = "compiling"

\* C9 witness: one watch-triggered run has finished, the next is in flight
\* and a further qualifying event waits in the queue.
C9_Witness ==
    /\ lastRun.by = "observer"
    /\ obsPc = "compiling"
    /\ queue # << >>
    /\ Qualifies(Head(queue))

\* C10: leaving the watch loop stops the observer; main passes
\* observer.join() only when the observer thread has ended and no run is in
\* flight; no run starts after that, and the process exits with status 0.
C10_InterruptDrains ==
    /\ (observer # "none" /\ pc # "watching") => observer = "stopped"
    /\ (observer # "none" /\ pc \in {"finally", "exited"}) =>
          /\ obsPc \in {"finished", "dead"}
          /\ activeRuns = {}
    /\ ~runsAfterJoin
    /\ (observer # "none" /\ pc = "exited") => (exitCode = 0 /\ exitReason = "interrupt_watch")

\* C10 witness: the interrupt has stopped the observer while a run is in
\* flight, and main is blocked in observer.join().
C10_Witness ==
    /\ pc = "joining"
    /\ observer = "stopped"
    /\ obsPc = "compiling"
    /\ "observer" \in activeRuns

\* C13: a policy built with strict=true has exactly the four strict presets
\* whatever the baseline, allowHttp and the interactive override are; with
\* allowHttp set too, it also has allowHttp true and "http" allowed.
C13_StrictPresets ==
    (pb.pc = "built" /\ pb.strict_mode) =>
        /\ pb.config.processing.max_template_size = 512 * 1024
        /\ pb.config.network.max_response_size = 5 * 1024 * 1024
        /\ pb.config.processing.max_content_elements = 500
        /\ pb.config.processing.max_nesting_depth = 8
        /\ pb.allow_http =>
              /\ pb.config.network.allow_http
              /\ "http" \in pb.config.network.allowed_protocols

\* C13 witness: strict and allowHttp together, with an interactive override,
\* on a baseline whose limits lie below the presets.
C13_Witness ==
    /\ pb.pc = "built"
    /\ pb.strict_mode
    /\ pb.allow_http
    /\ pb.interactive_allowlist = "False"
    /\ pb.env.processing.max_nesting_depth = 2
    /\ ~pb.env.network.allow_http

\* C14: every policy the builder returns has positive numeric limits and
\* allows "https"; the builder removes no protocol of the baseline and adds
\* at most "http", and only when allowHttp is set.
C14_PolicyInvariant ==
    pb.pc = "built" =>
        /\ pb.config.processing.max_template_size > 0
        /\ pb.config.network.max_response_size > 0
        /\ pb.config.processing.max_content_elements > 0
        /\ pb.config.processing.max_nesting_depth > 0
        /\ pb.config.network.request_timeout > 0
        /\ "https" \in pb.config.network.allowed_protocols
        /\ pb.env.network.allowed_protocols \subseteq pb.config.network.allowed_protocols
        /\ pb.config.network.allowed_protocols \subseteq
              (pb.env.network.allowed_protocols \cup {"http"})
        /\ pb.config.network.allowed_protocols # pb.env.network.allowed_protocols
              => pb.allow_http

\* C14 witness: allowHttp added "http" to a baseline that allowed "https"
\* and "data".
C14_Witness ==
    /\ pb.pc = "built"
    /\ pb.allow_http
    /\ pb.env.network.allowed_protocols = {"https", "data"}
    /\ pb.config.network.allowed_protocols = {"https", "data", "http"}

\* C11: the allowlist operations are called in the order status,
\* add-trusted, remove, export, import, cleanup, each at most once and only
\* when its flag is present; when an operation raises, the error is
\* reported, no later operation is called and the process exits with status
\* 1; a remove that finds no entry only warns, so a call that returns True
\* has called every flagged operation.
C11_AllowlistOrder ==
    al.pc = "run" =>
        /\ \A i, j \in 1..Len(al.attempted) :
              i < j => Pos(al.attempted[i]) < Pos(al.attempted[j])
        /\ \A i \in 1..Len(al.attempted) : al.attempted[i] \in al.flags
        /\ al.failed # "none" =>
              /\ al.at = "exited"
              /\ al.result = "exit1"
              /\ al.reported
              /\ al.failed # "manager" =>
                    al.attempted[Len(al.attempted)] = al.failed
              /\ al.failed = "manager" => al.attempted = << >>
        /\ al.result = "True" =>
              /\ al.failed = "none"
              /\ \A f \in al.flags : \E i \in 1..Len(al.attempted) : al.attempted[i] = f
        /\ al.result = "exit1" => al.failed # "none"

\* C11 witness: remove found nothing and only warned, export then raised,
\* and the flagged import and cleanup were never called.
C11_Witness ==
    /\ al.pc = "run"
    /\ al.flags = AllowlistFlags
    /\ al.warned
    /\ al.failed = "export"
    /\ al.attempted = << "status", "add", "remove", "export" >>
    /\ al.result = "exit1"

\* C12: with --supported-schema-version no policy is built, no allowlist
\* dispatch, input resolution or engine call happens and the status is 0;
\* otherwise, with an allowlist flag, the dispatcher ends the invocation and
\* neither the input resolver nor a compile_template run is reached, also
\* when a template argument is given; the pipeline runs only when neither
\* holds.
C12_DispatchExclusive ==
    /\ args.supported_schema_version =>
          /\ ~policy.built
          /\ exitReason \notin {"allowlist", "allowlist_error"}
          /\ ~existsChecked /\ ~netCalled /\ path = "unset"
          /\ engineCalls = {} /\ activeRuns = {} /\ lastRun = NoRun
          /\ pc = "exited" => (exitCode = 0 /\ exitReason = "version")
    /\ (~args.supported_schema_version /\ args.allowlist) =>
          /\ ~existsChecked /\ ~netCalled /\ path = "unset"
          /\ engineCalls = {} /\ activeRuns = {} /\ lastRun = NoRun
          /\ pc = "exited" => exitReason \in {"allowlist", "allowlist_error"}
    /\ (existsChecked \/ netCalled \/ path # "unset" \/ activeRuns # {} \/ lastRun # NoRun) =>
          (~args.supported_schema_version /\ ~args.allowlist)

\* C12 witness: an allowlist flag together with a URL template: the
\* dispatcher ended the invocation and nothing was downloaded.
C12_Witness ==
    /\ ~args.supported_schema_version
    /\ args.allowlist
    /\ args.template.scheme = "https"
    /\ pc = "exited"
    /\ exitReason = "allowlist"
    /\ exitCode = 0
    /\ policy.built
    /\ ~netCalled

\* C15: once built, the policy never changes, and every compile_template
\* run, initial or watch-triggered, is passed that same policy.
C15_PolicyImmutable ==
    /\ [](lastRun.by # "none" =>
            (policy.built /\ lastRun.security_config = policy.config))
    /\ [][policy.built => policy' = policy]_vars

\* C15 witness: a watch-triggered run has finished in a session whose policy
\* carries the strict presets and the --allow-http override.
C15_Witness ==
    /\ policy.built
    /\ args.strict
    /\ args.allow_http
    /\ prevRun.by = "main"
    /\ lastRun.by = "observer"
    /\ lastRun.security_config.processing.max_nesting_depth = 8
    /\ lastRun.security_config.network.allow_http

\* C16: a template argument with both a scheme and a network location is a
\* URL and is never looked up on disk; any other argument is a local path,
\* causes no download and no temporary file, and when it does not exist the
\* invocation ends with status 1 before any engine call.
C16_InputClassification ==
    LET url == args.template.scheme # "" /\ args.template.netloc # "" IN
    /\ url => (~existsChecked /\ path \in {"unset", "temp_file_path"})
    /\ ~url => (~netCalled /\ tempFile = "none" /\ path \in {"unset", "template_file"})
    /\ (~url /\ pc # "configured") => existsChecked
    /\ (~url /\ ~onDisk /\ pc # "configured") =>
          /\ pc = "exited"
          /\ exitCode = 1
          /\ exitReason = "not_found"
          /\ engineCalls = {}
          /\ lastRun = NoRun
    /\ (~url /\ onDisk /\ pc # "configured") =>
          (path = "template_file" /\ exitReason # "not_found")

\* C16 witness: a scheme without a network location, not present on disk:
\* looked up as a local path and ended as not found.
C16_Witness ==
    /\ args.template.scheme = "file"
    /\ args.template.netloc = ""
    /\ ~onDisk
    /\ existsChecked
    /\ ~netCalled
    /\ pc = "exited"
    /\ exitReason = "not_found"
    /\ exitCode = 1

\* C17: a URL whose scheme is neither http nor https, and an http URL when
\* the policy's allow_http is false, ends the invocation with status 1
\* before a temporary file is created, a request is sent or the engine is
\* called; an http URL is requested only when allow_http is true.
C17_UrlSchemeRejected ==
    LET url == args.template.scheme # "" /\ args.template.netloc # ""
        scheme == urlparse_scheme(args.template)
        rejected == /\ pc = "exited"
                    /\ exitCode = 1
                    /\ exitReason = "download"
                    /\ ~netCalled
                    /\ tempFile = "none"
                    /\ engineCalls = {}
                    /\ lastRun = NoRun
    IN
    /\ (url /\ scheme \notin {"http", "https"} /\ pc # "configured") => rejected
    /\ (url /\ scheme = "http" /\ ~policy.config.network.allow_http /\ pc # "configured")
          => rejected
    /\ (netCalled /\ scheme = "http") => policy.config.network.allow_http

\* C17 witness: an http URL under a policy without allow_http was rejected
\* with nothing created or requested.
C17_Witness ==
    /\ args.template.scheme = "http"
    /\ args.template.netloc = "h"
    /\ ~policy.config.network.allow_http
    /\ pc = "exited"
    /\ exitReason = "download"
    /\ exitCode = 1
    /\ ~netCalled
    /\ tempFile = "none"

\* C18: when the engine has compiled and the guard judges the requested
\* output path unsafe, the run is a failed run and nothing is written:
\* sys.exit(1) outside watch mode, False in watch mode.  The guard is
\* consulted only for a requested output path; where the template lies does
\* not matter to it.
C18_UnsafeOutputBlocked ==
    LET req == orch.req
        env == orch.env
        out == orch.out
        unsafe == req.output \in { <<"/", "e", "t", "c", "/", "x">>,
                                   <<"/", "o", "/", "x", "?">> }
    IN
    orch.pc = "returned" =>
        /\ unsafe => ~out.wrote
        /\ (unsafe /\ out.guard) => out.category = "unsafe_output"
        /\ out.category = "unsafe_output" =>
              /\ unsafe
              /\ out.guard
              /\ out.engine = "compile_file"
              /\ out.result = IF orch.watch_mode THEN "False" ELSE "SystemExit"
        /\ out.guard => (req.output # NoOutput /\ ~req.validate_only)
        /\ out.wrote => out.guard
        /\ ( /\ req.output = <<"/", "o", "/", "x">>
             /\ out.engine = "compile_file"
             /\ env.engine = "ok"
             /\ env.mkdir = "ok"
             /\ env.write = "ok" ) => (out.wrote /\ out.result = "True")

\* C18 witness: a watch-mode run asked to write below /etc compiled, was
\* refused by the guard and returned False with nothing written.
C18_Witness ==
    /\ orch.pc = "returned"
    /\ orch.watch_mode
    /\ orch.req.output = <<"/", "e", "t", "c", "/", "x">>
    /\ orch.req.template_path = <<"/", "e", "t", "c", "/", "t">>
    /\ orch.out.engine = "compile_file"
    /\ orch.out.category = "unsafe_output"
    /\ orch.out.result = "False"
    /\ orch.out.guard
    /\ ~orch.out.wrote

\* C20: an exception raised in the try block is handled by the first except
\* clause, in the order security, validation, compilation, generic engine
\* error, anything else, whose class it is an instance of: a security error,
\* also an instance of the generic engine error, is reported as a security
\* error; whichever clause handles it, the run calls sys.exit(1) outside
\* watch mode and returns False in watch mode.
C20_HandlerPriority ==
    LET env == orch.env
        out == orch.out
        raised == IF out.engine = "none" THEN "none"
                  ELSE IF env.engine \in EngineErrors THEN env.engine
                  ELSE IF out.guard /\ out.category # "unsafe_output"
                          /\ WriteStep(env) \notin {"ok", "PermissionError"}
                       THEN WriteStep(env)
                  ELSE "none"
        expected == CASE raised = "ITSSecurityError" -> "ITSSecurityError"
                      [] raised = "ITSValidationError" -> "ITSValidationError"
                      [] raised = "ITSCompilationError" -> "ITSCompilationError"
                      [] raised = "ITSError" -> "ITSError"
                      [] OTHER -> "Exception"
    IN
    orch.pc = "returned" =>
        /\ raised # "none" =>
              /\ out.category = expected
              /\ out.result = IF orch.watch_mode THEN "False" ELSE "SystemExit"
              /\ ~out.wrote
        /\ out.category \in {"ITSSecurityError", "ITSValidationError", "ITSCompilationError",
                             "ITSError", "Exception"} => raised # "none"

\* C20 witness: the engine raised a security error outside watch mode; it
\* was reported as a security error and the run called sys.exit(1).
C20_Witness ==
    /\ orch.pc = "returned"
    /\ ~orch.watch_mode
    /\ orch.env.engine = "ITSSecurityError"
    /\ orch.out.engine = "compile_file"
    /\ orch.out.category = "ITSSecurityError"
    /\ orch.out.result = "SystemExit"

C21_ReportDowngraded ==
    LET req == orch.req
        env == orch.env
        out == orch.out
        plain == compile_template([req EXCEPT !.security_report = FALSE], env,
                                  orch.watch_mode, orch.system)
    IN
    (orch.pc = "returned" /\ req.security_report /\ ~req.validate_only) =>
        /\ out.result = plain.result
        /\ out.category = plain.category
        /\ out.guard = plain.guard
        /\ out.wrote = plain.wrote
        /\ out.report # "none" =>
              /\ out.result = "True"
              /\ out.engine = "compile_file"
              /\ req.output # NoOutput => out.wrote
        /\ (env.report = "fail" /\ plain.result = "True") =>
              (out.report = "warning" /\ out.result = "True")

\* C21 witness: outside watch mode the output was written, the report
\* failed, and the run returned True with a warning.
C21_Witness ==
    /\ orch.pc = "returned"
    /\ ~orch.watch_mode
    /\ orch.req.security_report
    /\ ~orch.req.validate_only
    /\ orch.req.output = <<"/", "o", "/", "x">>
    /\ orch.env.report = "fail"
    /\ orch.out.wrote
    /\ orch.out.report = "warning"
    /\ orch.out.result = "True"

\* C22: when the output step is reached and creating the parent directory
\* or opening and writing the file raises, whatever it raises, the run does
\* not report the output as written and does not return True: it calls
\* sys.exit(1) outside watch mode and returns False in watch mode.
C22_FailedWriteNotSuccess ==
    LET req == orch.req
        env == orch.env
        out == orch.out
        reached == /\ out.engine = "compile_file"
                   /\ env.engine = "ok"
                   /\ req.output = <<"/", "o", "/", "x">>
        failed == env.mkdir # "ok" \/ env.write # "ok"
    IN
    (orch.pc = "returned" /\ reached /\ failed) =>
        /\ out.guard
        /\ ~out.wrote
        /\ out.result # "True"
        /\ out.report = "none"
        /\ out.category \in {"permission", "Exception"}
        /\ out.result = IF orch.watch_mode THEN "False" ELSE "SystemExit"

\* C22 witness: outside watch mode the parent directory was created and the
\* write raised an I/O error that is not a permission error; the run called
\* sys.exit(1) from the last except clause.
C22_Witness ==
    /\ orch.pc = "returned"
    /\ ~orch.watch_mode
    /\ orch.req.output = <<"/", "o", "/", "x">>
    /\ orch.out.engine = "compile_file"
    /\ orch.env.engine = "ok"
    /\ orch.env.mkdir = "ok"
    /\ orch.env.write = "OSError"
    /\ orch.out.category = "Exception"
    /\ orch.out.result = "SystemExit"
    /\ ~orch.out.wrote

\* C23: a path whose resolution succeeds, that contains none of the
\* markers and is neither a deny-listed directory of the platform nor inside
\* one, a directory beside a deny-listed one whose name begins with the same
\* characters included, is answered safe.
C23_GuardAcceptsOthers ==
    LET p == gd.path_str
        markers == { <<".", ".">>, <<"%">>, <<"<">>, <<">">>, <<"|">>, <<"\"">>,
                     <<"?">>, <<"*">> }
        marked == \E m \in markers : Contains(p, m)
        inside(a, d) == a = d \/ StartsWith(a, d \o <<Sep(gd.system)>>)
        denied == IF gd.system = "Windows"
                  THEN \E d \in system_dirs_windows : inside(Upper(p), Upper(d))
                  ELSE \E d \in system_dirs_posix : inside(p, d)
    IN
    (gd.pc \in {"once", "twice"} /\ ~gd.raises /\ ~marked /\ ~denied) => gd.first

\* C24: a validate-only run calls validate_file and never compile_file,
\* never consults the output guard and never writes the output file or a
\* report, also when an output path is given; a full-compile run never
\* calls validate_file.
C24_ValidateNoArtifact ==
    LET req == orch.req
        out == orch.out
    IN
    orch.pc = "returned" =>
        /\ req.validate_only =>
              /\ out.engine \in {"none", "validate_file"}
              /\ ~out.guard
              /\ ~out.wrote
              /\ out.report = "none"
        /\ ~req.validate_only => out.engine \in {"none", "compile_file"}
        /\ out.engine = "validate_file" => req.validate_only
        /\ out.engine = "compile_file" => ~req.validate_only

\* C24 witness: a validate-only run with an output path and a report
\* requested found the template valid and returned True with neither
\* written.
C24_Witness ==
    /\ orch.pc = "returned"
    /\ orch.req.validate_only
    /\ orch.req.output = <<"/", "o", "/", "x">>
    /\ orch.req.security_report
    /\ orch.env.engine = "ok"
    /\ orch.out.engine = "validate_file"
    /\ orch.out.result = "True"
    /\ ~orch.out.guard
    /\ ~orch.out.wrote
    /\ orch.out.report = "none"

\* C25: the observer thread starts a run only by taking from its queue a
\* modification event of the template's parent directory that is not a
\* directory event and carries the template's file name; taking any other
\* event starts no run and changes nothing else; and only modifications
\* directly in the parent directory are ever queued.
C25_EventFilter ==
    [][ LET matches(ev) == /\ ev.kind = "modified"
                           /\ ~ev.is_directory
                           /\ ev.name = "t.json"
                           /\ ev.dir = "parent"
        IN
        /\ ("observer" \in activeRuns' /\ "observer" \notin activeRuns) =>
              /\ queue # << >>
              /\ matches(Head(queue))
              /\ queue' = Tail(queue)
        /\ (queue # << >> /\ queue' = Tail(queue) /\ ~matches(Head(queue))) =>
              UNCHANGED << activeRuns, engineCalls, lastRun, prevRun, report, obsPc,
                           tempFile, exitCode, exitReason >>
        /\ Len(queue') > Len(queue) =>
              /\ queue'[Len(queue')].dir = "parent"
              /\ queue'[Len(queue')].kind = "modified"
      ]_vars

\* C25 witness: the session has seen all its events, none of them a
\* modification of the template file itself, and no watch-triggered run
\* was started.
C25_Witness ==
    /\ pc = "watching"
    /\ emitted = MaxEvents
    /\ queue = << >>
    /\ obsPc = "idle"
    /\ lastRun.by = "main"
    /\ \A c \in engineCalls : c.by = "main"

\* C26: the initial run of a watch session is called with the paths, the
\* verbosity, the policy and the --validate-only, --no-cache and
\* --security-report values of the command line; every watch-triggered run
\* is called with the same template path, output path, variables path,
\* verbosity and policy, and with validate-only off, caching on and no
\* report, whatever the command line said.
C26_RerunRequest ==
    LET r == lastRun.req IN
    /\ lastRun.by = "main" =>
          /\ r.template_path = path
          /\ r.output = args.output
          /\ r.variables = args.variables
          /\ r.verbose = args.verbose
          /\ r.security_config = policy.config
          /\ r.validate_only = args.validate_only
          /\ r.no_cache = args.no_cache
          /\ r.security_report = args.security_report
    /\ lastRun.by = "observer" =>
          /\ r.template_path = path
          /\ r.output = args.output
          /\ r.variables = args.variables
          /\ r.verbose = args.verbose
          /\ r.security_config = policy.config
          /\ ~r.validate_only
          /\ ~r.no_cache
          /\ ~r.security_report
    /\ (lastRun.by = "observer" /\ prevRun.by = "main") =>
          /\ r.template_path = prevRun.req.template_path
          /\ r.output = prevRun.req.output
          /\ r.variables = prevRun.req.variables
          /\ r.verbose = prevRun.req.verbose
          /\ r.security_config = prevRun.req.security_config

\* C26 witness: a session started with --no-cache, --security-report and
\* --verbose; the first watch-triggered run followed the initial run, with
\* the verbosity kept and the other two dropped.
C26_Witness ==
    /\ args.no_cache
    /\ args.security_report
    /\ args.verbose
    /\ prevRun.by = "main"
    /\ prevRun.req.no_cache
    /\ prevRun.req.security_report
    /\ lastRun.by = "observer"
    /\ lastRun.req.verbose
    /\ ~lastRun.req.no_cache
    /\ ~lastRun.req.security_report

====
